---- MODULE Spec2Model ----
(***************************************************************************)
(* The recommendation subsystem of the content / shop application:         *)
(*   src/app.py                            content recommendations        *)
(*   src/recommendation_engine.py          PersonalizedRecommendationEngine*)
(*   src/product_recommendation_engine.py  ProductRecommendationEngine     *)
(*   src/user_type_classifier.py           UserTypeClassifier              *)
(*                                                                         *)
(* Numbers.  Interaction scores are held in halves (1.0 is 2, 1.5 is 3,    *)
(* -0.5 is -1); cart signals in tenths (0.3 per unit is 3).  Similarities  *)
(* and normalised weights are held in thousandths, rounded down; a hybrid  *)
(* score of app.py in ten-thousandths; the classifier's scores in          *)
(* hundredths.                                                             *)
(***************************************************************************)
EXTENDS Integers, Sequences, FiniteSets, TLC

\* ------------------------------------------------------------------ bounds
MaxRows == 3
MaxStoreRows == 2
MaxN == 2
MaxScore == 6
MaxClock == 92
MaxCart == 2
MaxOrders == 1
InitialStock == 2
MaxKeys == 2
MaxWeight == 3
MaxTags == 2
MaxLimit == 3

\* --------------------------------------------------------------- constants
Milli == 10 * 10 * 10
WINDOW_ANALYZE == 90
WINDOW_MATRIX == 30
WINDOW_RECENT == 7
WINDOW_TRENDING == 30

UserIds == {1, 2}

\* The catalog: the rows of the content table.  Attributes that no modelled
\* handler writes are fixed; status is the variable `status`.
Catalog ==
  << [category |-> "Tutorial", author |-> "ann", tags |-> <<"python", "web">>,
      keywords |-> {"flask", "route"}, created_at |-> -40],
     [category |-> "Tutorial", author |-> "bob", tags |-> <<"python">>,
      keywords |-> {"flask"}, created_at |-> -5],
     [category |-> "News", author |-> "ann", tags |-> <<>>,
      keywords |-> {"market"}, created_at |-> -5] >>

ContentIds == 1..Len(Catalog)

\* The rows of the products table (all active: no handler writes is_active)
Products ==
  << [category |-> "books", created_at |-> -3, is_active |-> TRUE],
     [category |-> "books", created_at |-> -2, is_active |-> TRUE],
     [category |-> "toys", created_at |-> -2, is_active |-> TRUE] >>

ProductIds == 1..Len(Products)
CONTENT_STATUS == {"Draft", "Published", "Archived"}
RowOrders == {"asc", "desc"}

VARIABLES
  domain,            \* which tables the behaviour populates: "content" | "shop"
  status,            \* Content.status per content id
  interactions,      \* the user_interactions table, in primary-key order
  now,               \* datetime.utcnow(), in days
  content_features,  \* the engine's cached feature index (None until built)
  cart,              \* cart_items: quantity per (user, product), 0 for no row
  orders,            \* orders with their order_items, in primary-key order
  stock,             \* Product.stock_quantity
  user_product_matrix, \* the product engine's cached matrix ({} until built)
  resp,              \* the response of the request being served
  pair,              \* two sparse vectors and what the similarity scorers return
  call               \* the arguments of a call of a pure function, and its result

vars == <<domain, status, interactions, now, content_features,
          cart, orders, stock, user_product_matrix, resp, pair, call>>

\* ----------------------------------------------------------------- helpers
Min(a, b) == IF a < b THEN a ELSE b
Max(a, b) == IF a > b THEN a ELSE b
Range(s) == {s[i] : i \in 1..Len(s)}
Take(s, n) == SubSeq(s, 1, Min(n, Len(s)))
Reverse(s) == [i \in 1..Len(s) |-> s[Len(s) + 1 - i]]
\* the ids of a list of scored entries
Ids(l) == [k \in 1..Len(l) |-> l[k].id]

RECURSIVE AscSeq(_)
AscSeq(S) ==
  IF S = {} THEN <<>>
  ELSE LET m == CHOOSE x \in S : \A y \in S : x <= y
       IN <<m>> \o AscSeq(S \ {m})

\* The rows of a query with no ORDER BY (and the iteration of a Python set):
\* the order is not defined; the model takes primary-key order or its reverse.
Ordered(S, ord) == IF ord = "asc" THEN AscSeq(S) ELSE Reverse(AscSeq(S))

RECURSIVE Dedup(_)
Dedup(s) ==
  IF s = <<>> THEN <<>>
  ELSE LET r == Dedup(SubSeq(s, 1, Len(s) - 1))
       IN IF s[Len(s)] \in Range(r) THEN r ELSE Append(r, s[Len(s)])

RECURSIVE SumOver(_, _)
SumOver(S, f) ==
  IF S = {} THEN 0
  ELSE LET x == CHOOSE y \in S : TRUE IN f[x] + SumOver(S \ {x}, f)

\* list.sort(key=..., reverse=True) / sorted(..., reverse=True): stable.
SortDesc(s) ==
  LET n == Len(s)
      pos(i) == 1 + Cardinality({j \in 1..n :
                   \/ s[j].key > s[i].key
                   \/ s[j].key = s[i].key /\ j < i})
  IN [p \in 1..n |-> s[CHOOSE i \in 1..n : pos(i) = p]]

RECURSIVE SqrtSearch(_, _, _)
SqrtSearch(x, lo, hi) ==
  IF lo >= hi THEN lo
  ELSE LET mid == (lo + hi + 1) \div 2
       IN IF mid * mid <= x THEN SqrtSearch(x, mid, hi)
          ELSE SqrtSearch(x, lo, mid - 1)

\* floor(1000 * num / sqrt(den)) for 0 <= num, 0 < den, num^2 <= den
MilliRatioSqrt(num, den) ==
  LET n2 == num * num
      q1 == (Milli * n2) \div den
      r1 == (Milli * n2) % den
      x  == q1 * Milli + (r1 * Milli) \div den
  IN SqrtSearch(x, 0, Milli)

\* round(x, 3) of num/den (den > 0), in thousandths: round half to even
RoundHalfEven(num, den) ==
  LET q == (2 * num + den) \div (2 * den)
  IN IF (2 * num + den) % (2 * den) = 0 /\ q % 2 = 1 THEN q - 1 ELSE q

\* ------------------------------------------------------- interaction store
Row(u, c, t, sc, ts) == [user |-> u, content |-> c, type |-> t, score |-> sc, ts |-> ts]

RowIds == DOMAIN interactions
RowsOfUser(u) == {i \in RowIds : interactions[i].user = u}
InteractedIds(u) == {interactions[i].content : i \in RowsOfUser(u)}
Published == {c \in ContentIds : status[c] = "Published"}
\* Content.get_tags_list: the parts of the tags column that are not blank
\* (a blank part is held as "")
get_tags_list(content) == SelectSeq(content.tags, LAMBDA tag : tag # "")
TagSet(c) == Range(get_tags_list(Catalog[c]))

\* ------------------------------------------------- similarity scorer (app)
SumSquares(v) == SumOver(DOMAIN v, [k \in DOMAIN v |-> v[k] * v[k]])
DotCommon(a, b) ==
  SumOver(DOMAIN a \cap DOMAIN b, [k \in DOMAIN a \cap DOMAIN b |-> a[k] * b[k]])

\* calculate_user_similarity with the first user's sum of squares used for
\* both factors of the denominator
calculate_user_similarity_one_sided(user1_items, user2_items) ==
  LET common_items == DOMAIN user1_items \cap DOMAIN user2_items
      sum_squares1 == SumSquares(user1_items)
      sum_products == DotCommon(user1_items, user2_items)
  IN IF common_items = {} THEN 0
     ELSE IF sum_squares1 * sum_squares1 = 0 THEN 0
     ELSE MilliRatioSqrt(sum_products, sum_squares1 * sum_squares1)

calculate_user_similarity(user1_items, user2_items) ==
  LET common_items == DOMAIN user1_items \cap DOMAIN user2_items
      sum_squares1 == SumSquares(user1_items)
      sum_squares2 == SumSquares(user2_items)
      sum_products == DotCommon(user1_items, user2_items)
  IN IF common_items = {} THEN 0
     ELSE IF sum_squares1 * sum_squares2 = 0 THEN 0
     ELSE IF sum_products >= 0
          THEN MilliRatioSqrt(sum_products, sum_squares1 * sum_squares2)
          ELSE 0 - MilliRatioSqrt(0 - sum_products, sum_squares1 * sum_squares2)

\* ------------------------------------------------ content similarity (app)
Jaccard(A, B, weight) == (weight * Cardinality(A \cap B)) \div Cardinality(A \cup B)

\* content1, content2: rows of the content table; keywords stands for
\* set(extract_keywords(content.content)).  The sum is exact where the code
\* adds floats.
calculate_content_similarity(content1, content2) ==
  LET tags1 == Range(get_tags_list(content1))
      tags2 == Range(get_tags_list(content2))
      keywords1 == content1.keywords
      keywords2 == content2.keywords
  IN (IF content1.category = content2.category THEN 400 ELSE 0)
   + (IF tags1 # {} /\ tags2 # {} THEN Jaccard(tags1, tags2, 300) ELSE 0)
   + (IF keywords1 # {} /\ keywords2 # {} THEN Jaccard(keywords1, keywords2, 200) ELSE 0)
   + (IF content1.author = content2.author THEN 100 ELSE 0)

\* get_content_recommendations: a list of [id, key] with key the similarity
get_content_recommendations(content_id, limit, ord) ==
  LET other_content == Ordered(Published \ {content_id}, ord)
      scored == [i \in 1..Len(other_content) |->
                   [id |-> other_content[i],
                    key |-> calculate_content_similarity(Catalog[content_id],
                                                        Catalog[other_content[i]])]]
      recommendations == SelectSeq(scored, LAMBDA r : r.key > 0)
  IN IF content_id \notin ContentIds THEN <<>>
     ELSE Take(SortDesc(recommendations), limit)

\* --------------------------------------------------- trending content (app)
\* get_trending_content: the published content, newest first (at most 20),
\* scored by how many of its tags are among the 5 most common tags
MostCommonTags(recent_content) ==
  LET RECURSIVE AllTags(_)
      AllTags(k) == IF k > Len(recent_content) THEN <<>>
                    ELSE Catalog[recent_content[k]].tags \o AllTags(k + 1)
      all_tags == AllTags(1)
      distinct == Dedup(all_tags)
      counted == [k \in 1..Len(distinct) |->
                    [id |-> distinct[k],
                     key |-> Cardinality({j \in 1..Len(all_tags) : all_tags[j] = distinct[k]})]]
  IN Range(Ids(Take(SortDesc(counted), 5)))

get_trending_content(limit, ord) ==
  LET pub == Ordered(Published, ord)
      recent_content == Ids(Take(SortDesc([k \in 1..Len(pub) |->
                          [id |-> pub[k], key |-> Catalog[pub[k]].created_at]]), 20))
      popular_tags == MostCommonTags(recent_content)
      tag_score(c) == Cardinality({j \in 1..Len(Catalog[c].tags) :
                                     Catalog[c].tags[j] \in popular_tags})
      scored == [k \in 1..Len(recent_content) |->
                   [id |-> recent_content[k], key |-> tag_score(recent_content[k])]]
      trending == SelectSeq(scored, LAMBDA r : r.key > 0)
  IN Take(SortDesc(trending), limit)

\* ----------------------------------------- collaborative filtering (app)
\* build_user_item_matrix: the rows of the last WINDOW_MATRIX days, in the
\* order the query returns them; a later row overwrites an earlier one.
MatrixRows(ord) ==
  Ordered({i \in RowIds : interactions[i].ts >= now - WINDOW_MATRIX}, ord)

MatrixUsers(rows) == {interactions[rows[k]].user : k \in 1..Len(rows)}

UserItems(rows, u) ==
  LET mine == SelectSeq(rows, LAMBDA i : interactions[i].user = u)
      items == {interactions[mine[k]].content : k \in 1..Len(mine)}
      last(c) == CHOOSE k \in 1..Len(mine) :
                   /\ interactions[mine[k]].content = c
                   /\ \A j \in (k + 1)..Len(mine) : interactions[mine[j]].content # c
  IN [c \in items |-> interactions[mine[last(c)]].score]

\* the keys of user_item_matrix[u] in insertion order
UserItemOrder(rows, u) ==
  LET mine == SelectSeq(rows, LAMBDA i : interactions[i].user = u)
  IN Dedup([k \in 1..Len(mine) |-> interactions[mine[k]].content])

build_user_item_matrix(ord, failed) ==
  IF failed THEN [rows |-> <<>>, users |-> <<>>]
  ELSE [rows |-> MatrixRows(ord),
        users |-> Ordered(MatrixUsers(MatrixRows(ord)), ord)]

\* AppNeighbours with "similarity >= 0" for "similarity > 0"
AppNeighboursAll(m, target) ==
  LET others == SelectSeq(m.users, LAMBDA u : u # target)
  IN [k \in 1..Len(others) |->
        [user |-> others[k],
         sim |-> calculate_user_similarity(UserItems(m.rows, target),
                                           UserItems(m.rows, others[k]))]]

\* the neighbours of the target user, in iteration order, with similarity
AppNeighbours(m, target) ==
  LET others == SelectSeq(m.users, LAMBDA u : u # target)
      withSim == [k \in 1..Len(others) |->
                    [user |-> others[k],
                     sim |-> calculate_user_similarity(UserItems(m.rows, target),
                                                       UserItems(m.rows, others[k]))]]
  IN SelectSeq(withSim, LAMBDA r : r.sim > 0)

RECURSIVE FlattenItems(_, _, _)
FlattenItems(m, nbrs, k) ==
  IF k > Len(nbrs) THEN <<>>
  ELSE UserItemOrder(m.rows, nbrs[k].user) \o FlattenItems(m, nbrs, k + 1)

\* recommendations[item] (times total_similarity, in halves): the sum over
\* the neighbours of similarity * rating
AppCandidateScore(m, nbrs, item) ==
  LET idx == {k \in 1..Len(nbrs) : item \in DOMAIN UserItems(m.rows, nbrs[k].user)}
  IN SumOver(idx, [k \in idx |-> nbrs[k].sim * UserItems(m.rows, nbrs[k].user)[item]])

AppCandidates(m, nbrs, target) ==
  LET seen == DOMAIN UserItems(m.rows, target)
      order == Dedup(SelectSeq(FlattenItems(m, nbrs, 1), LAMBDA c : c \notin seen))
  IN [k \in 1..Len(order) |->
        [id |-> order[k], key |-> AppCandidateScore(m, nbrs, order[k])]]

\* get_collaborative_filtering_recommendations of app.py: [id, key] with key
\* the cf_score in thousandths.  faults: "matrix" (the interaction read),
\* "fetch" (the read of the content objects)
get_collaborative_filtering_recommendations(target_user_id, limit, ord, faults) ==
  LET m == build_user_item_matrix(ord, "matrix" \in faults)
      nbrs == AppNeighbours(m, target_user_id)
      total_similarity == SumOver(DOMAIN nbrs, [k \in DOMAIN nbrs |-> nbrs[k].sim])
      sorted_recommendations == SortDesc(AppCandidates(m, nbrs, target_user_id))
      top == Take(sorted_recommendations, limit)
      content_ids == {top[k].id : k \in 1..Len(top)}
      recommended_content == Ordered(content_ids \cap Published, ord)
      scoreOf(c) == (CHOOSE k \in 1..Len(top) : top[k].id = c)
  IN IF target_user_id \notin Range(m.users) THEN <<>>
     ELSE IF total_similarity = 0 THEN <<>>
     ELSE IF "fetch" \in faults THEN <<>>
     ELSE [k \in 1..Len(recommended_content) |->
             [id |-> recommended_content[k],
              key |-> RoundHalfEven(500 * top[scoreOf(recommended_content[k])].key,
                                    total_similarity)]]

\* ---------------------------------------------------------- hybrid (app)
\* get_hybrid_recommendations of app.py.  faults: "content_based" (the call of
\* line 464 raises), "fallback" (the call of line 505 raises), and those of
\* the collaborative filter.  The result: [raised, list of [id, key]] with key
\* the hybrid_score in ten-thousandths.
\* AppHybridCombine with a list in place of the dictionary keyed by content
\* id: an item both strategies name is listed twice
AppHybridConcat(content_based, cf_based) ==
  LET cbIds == [k \in 1..Len(content_based) |-> content_based[k].id]
      cfIds == [k \in 1..Len(cf_based) |-> cf_based[k].id]
      order == cbIds \o cfIds
      cbScore(c) == IF c \in Range(cbIds)
                    THEN content_based[CHOOSE k \in 1..Len(cbIds) : cbIds[k] = c].key
                    ELSE 0
      cfScore(c) == IF c \in Range(cfIds)
                    THEN cf_based[CHOOSE k \in 1..Len(cfIds) : cfIds[k] = c].key
                    ELSE 0
  IN [k \in 1..Len(order) |->
        [id |-> order[k], key |-> 6 * cbScore(order[k]) + 4 * cfScore(order[k])]]

AppHybridCombine(content_based, cf_based) ==
  LET cbIds == [k \in 1..Len(content_based) |-> content_based[k].id]
      cfIds == [k \in 1..Len(cf_based) |-> cf_based[k].id]
      order == Dedup(cbIds \o cfIds)
      cbScore(c) == IF c \in Range(cbIds)
                    THEN content_based[CHOOSE k \in 1..Len(cbIds) : cbIds[k] = c].key
                    ELSE 0
      cfScore(c) == IF c \in Range(cfIds)
                    THEN cf_based[CHOOSE k \in 1..Len(cfIds) : cfIds[k] = c].key
                    ELSE 0
  IN [k \in 1..Len(order) |->
        [id |-> order[k], key |-> 6 * cbScore(order[k]) + 4 * cfScore(order[k])]]

app_get_hybrid_recommendations(content_id, user_id, limit, ord, faults) ==
  IF "content_based" \in faults
  THEN IF "fallback" \in faults
       THEN [raised |-> TRUE, list |-> <<>>]
       ELSE [raised |-> FALSE,
             list |-> get_content_recommendations(content_id, limit, ord)]
  ELSE [raised |-> FALSE,
        list |-> Take(SortDesc(AppHybridCombine(
                   get_content_recommendations(content_id, limit \div 2 + 1, ord),
                   get_collaborative_filtering_recommendations(
                     user_id, limit \div 2 + 1, ord, faults))), limit)]

\* =================================================== recommendation_engine
Ok(l) == [raised |-> FALSE, list |-> l]
Raised == [raised |-> TRUE, list |-> <<>>]

\* ------------------------------------------------- build_content_features
NoFeatures == [built |-> FALSE, ids |-> <<>>, vocab |-> {}]

\* the terms of the combined text of a content item
Terms(c) == {Catalog[c].category, Catalog[c].author} \cup TagSet(c) \cup Catalog[c].keywords

\* TfidfVectorizer(min_df=2, max_df=0.8): the terms kept, over the documents D
Vocabulary(D) ==
  LET df(t) == Cardinality({c \in D : t \in Terms(c)})
  IN {t \in UNION {Terms(c) : c \in D} : df(t) >= 2 /\ 5 * df(t) <= 4 * Cardinality(D)}

\* fit_transform raises ValueError when no term is kept (and the except
\* clause leaves the matrix unset); failed: the catalog read raises
build_content_features(ord, failed) ==
  IF failed \/ Published = {} \/ Vocabulary(Published) = {}
  THEN content_features
  ELSE [built |-> TRUE, ids |-> Ordered(Published, ord), vocab |-> Vocabulary(Published)]

\* the row of the matrix for a content item (term weights taken as 1)
FeatureRow(f, c) == [t \in Terms(c) \cap f.vocab |-> 1]

\* sklearn cosine_similarity of two sparse vectors
cosine_similarity(a, b) ==
  LET dot == DotCommon(a, b)
      den == SumSquares(a) * SumSquares(b)
  IN IF den = 0 THEN 0
     ELSE IF dot >= 0 THEN MilliRatioSqrt(dot, den)
     ELSE 0 - MilliRatioSqrt(0 - dot, den)

\* -------------------------------------------- _get_trending_recommendations
\* faults: "trending" (the grouped query raises), "trending_fallback" (the
\* query of the except clause raises)
InteractionCount(c) == Cardinality({i \in RowIds : interactions[i].content = c})

get_trending_recommendations(num_recommendations, ord, faults) ==
  LET recent == Ordered({c \in Published :
                           Catalog[c].created_at >= now - WINDOW_TRENDING}, ord)
      ranked == SortDesc([k \in 1..Len(recent) |->
                  [id |-> recent[k],
                   key |-> InteractionCount(recent[k]) * Milli
                           + Catalog[recent[k]].created_at + 500]])
      pub == Ordered(Published, ord)
      newest == SortDesc([k \in 1..Len(pub) |->
                  [id |-> pub[k], key |-> Catalog[pub[k]].created_at]])
  IN IF "trending" \notin faults THEN Ok(Take(ranked, num_recommendations))
     ELSE IF "trending_fallback" \notin faults THEN Ok(Take(newest, num_recommendations))
     ELSE Raised

\* ----------------------------------------------------- analyze_user_behavior
DefaultPreferences ==
  [categories |-> <<>>, authors |-> <<>>, tags |-> <<>>,
   total_interactions |-> 0, recent_activity |-> 0]

\* interaction_weights, in halves; .get(type, 1.0)
InteractionWeight(t) ==
  CASE t = "view" -> 2 [] t = "edit" -> 6 [] t = "like" -> 4
    [] t = "share" -> 5 [] t = "create" -> 8 [] OTHER -> 2

RECURSIVE Pow(_, _)
Pow(b, e) == IF e = 0 THEN 1 ELSE b * Pow(b, e - 1)

\* sorted(interactions, key=timestamp): stable, ascending
SortByTimestamp(rows) ==
  LET n == Len(rows)
      pos(i) == 1 + Cardinality({j \in 1..n :
                   \/ interactions[rows[j]].ts < interactions[rows[i]].ts
                   \/ interactions[rows[j]].ts = interactions[rows[i]].ts /\ j < i})
  IN [p \in 1..n |-> rows[CHOOSE i \in 1..n : pos(i) = p]]

\* total_weight of the k-th (1-based) of n sorted interactions, times 20^(n-1):
\* interaction_weight * 0.95 ** (n - i - 1) * interaction_score
TotalWeight(sorted, k) ==
  LET n == Len(sorted)
      r == interactions[sorted[k]]
  IN InteractionWeight(r.type) * r.score * Pow(19, n - k) * Pow(20, k - 1)

BucketMax(b) == CHOOSE m \in {b[k] : k \in DOMAIN b} : \A k \in DOMAIN b : b[k] <= m
\* Normalize dividing by the bucket's total instead of its maximum
NormalizeByTotal(b) == [k \in DOMAIN b |-> (b[k] * Milli) \div SumOver(DOMAIN b, b)]
Normalize(b) == [k \in DOMAIN b |-> (b[k] * Milli) \div BucketMax(b)]

\* Counted without the test of the content's status
CountedAll(sorted) == 1..Len(sorted)

\* the positions of the sorted interactions the loop does not skip:
\* "if not content or content.status != 'Published': continue"
Counted(sorted) ==
  {k \in 1..Len(sorted) : status[interactions[sorted[k]].content] = "Published"}

analyze_user_behavior(user_id, ord, faults) ==
  LET window == Ordered({i \in RowsOfUser(user_id) :
                            interactions[i].ts >= now - WINDOW_ANALYZE}, ord)
      sorted == SortByTimestamp(window)
      counted == Counted(sorted)
      contentOf(k) == interactions[sorted[k]].content
      w == [k \in counted |-> TotalWeight(sorted, k)]
      cats == {Catalog[contentOf(k)].category : k \in counted}
      auths == {Catalog[contentOf(k)].author : k \in counted}
      tgs == UNION {TagSet(contentOf(k)) : k \in counted}
      category_scores == [x \in cats |->
         SumOver({k \in counted : Catalog[contentOf(k)].category = x}, w)]
      author_scores == [x \in auths |->
         SumOver({k \in counted : Catalog[contentOf(k)].author = x}, w)]
      \* in half the unit of the two others (total_weight * 0.5)
      tag_scores == [x \in tgs |->
         SumOver({k \in counted : x \in TagSet(contentOf(k))}, w)]
      zeroDivision == \/ cats # {} /\ BucketMax(category_scores) = 0
                      \/ auths # {} /\ BucketMax(author_scores) = 0
                      \/ tgs # {} /\ BucketMax(tag_scores) = 0
  IN IF "analyze" \in faults \/ window = <<>> \/ zeroDivision
     THEN DefaultPreferences
     ELSE [categories |-> IF cats = {} THEN <<>> ELSE Normalize(category_scores),
           authors |-> IF auths = {} THEN <<>> ELSE Normalize(author_scores),
           tags |-> IF tgs = {} THEN <<>> ELSE Normalize(tag_scores),
           total_interactions |-> Len(window),
           recent_activity |-> Cardinality({i \in Range(window) :
                                 interactions[i].ts >= now - WINDOW_RECENT})]

\* ------------------------------------------ get_content_based_recommendations
\* a variant that builds on every request
FeaturesRebuilt(ord, faults) == build_content_features(ord, "build" \in faults)

\* The feature index the request leaves behind (built on first use).
FeaturesAfter(ord, faults) ==
  IF content_features.built THEN content_features
  ELSE build_content_features(ord, "build" \in faults)

ScoreOnContent(u, c) ==
  LET mine == {i \in RowsOfUser(u) : interactions[i].content = c}
  IN SumOver(mine, [i \in mine |-> interactions[i].score])

\* user_vector: the sum of the rows of the interacted items, each weighted
\* by the total interaction score on the item
UserVector(f, u) ==
  LET known == InteractedIds(u) \cap Range(f.ids)
  IN [t \in f.vocab |->
        SumOver({c \in known : t \in Terms(c)},
                [c \in known |-> ScoreOnContent(u, c)])]

\* faults: "build", "content_based" (a read of the body raises), and those
\* of the trending fallback
get_content_based_recommendations(user_id, num_recommendations, ord, faults) ==
  LET f == FeaturesAfter(ord, faults)
      interacted_content_ids == InteractedIds(user_id)
      user_vector == UserVector(f, user_id)
      cands == SelectSeq(f.ids, LAMBDA c : c \notin interacted_content_ids)
      content_similarities == [k \in 1..Len(cands) |->
          [id |-> cands[k], key |-> cosine_similarity(user_vector, FeatureRow(f, cands[k]))]]
      top == Take(SortDesc(content_similarities), num_recommendations)
      recommended_ids == Range(Ids(top))
      fetched == Ordered(recommended_ids, ord)
  IN IF ~f.built THEN Ok(<<>>)
     ELSE IF "content_based" \in faults
          THEN get_trending_recommendations(num_recommendations, ord, faults)
     ELSE IF RowsOfUser(user_id) = {}
          THEN get_trending_recommendations(num_recommendations, ord, faults)
     ELSE Ok([k \in 1..Len(fetched) |->
               [id |-> fetched[k],
                key |-> top[CHOOSE j \in 1..Len(top) : top[j].id = fetched[k]].key]])

\* --------------------------------- get_collaborative_filtering_recommendations
EngineUserVector(u) == [c \in InteractedIds(u) |-> ScoreOnContent(u, c)]

EngineNeighbours(user_id, ord) ==
  LET user_ids == Ordered({interactions[i].user : i \in RowIds}, ord)
      others == SelectSeq(user_ids, LAMBDA u : u # user_id)
      withSim == [k \in 1..Len(others) |->
                    [id |-> others[k],
                     key |-> cosine_similarity(EngineUserVector(user_id),
                                               EngineUserVector(others[k]))]]
      similar_users == SelectSeq(withSim, LAMBDA r : r.key > 100)
  IN Take(SortDesc(similar_users), 10)

RECURSIVE EngineFlatten(_, _, _)
EngineFlatten(nbrs, ord, k) ==
  IF k > Len(nbrs) THEN <<>>
  ELSE LET rows == Ordered(RowsOfUser(nbrs[k].id), ord)
       IN [j \in 1..Len(rows) |-> interactions[rows[j]].content]
          \o EngineFlatten(nbrs, ord, k + 1)

\* content_scores[c]: the sum over the neighbours' rows on c of
\* similarity * interaction_score (thousandths of halves)
EngineCandidates(user_id, nbrs, ord) ==
  LET seen == InteractedIds(user_id)
      order == Dedup(SelectSeq(EngineFlatten(nbrs, ord, 1), LAMBDA c : c \notin seen))
      score(c) == SumOver(DOMAIN nbrs,
                    [k \in DOMAIN nbrs |-> nbrs[k].key * ScoreOnContent(nbrs[k].id, c)])
  IN [k \in 1..Len(order) |-> [id |-> order[k], key |-> score(order[k])]]

\* faults: "collab" (a read of the body raises), and those of the fallback
engine_collaborative(user_id, num_recommendations, ord, faults) ==
  LET users == {interactions[i].user : i \in RowIds}
      contents == {interactions[i].content : i \in RowIds}
      nbrs == EngineNeighbours(user_id, ord)
      top == Take(SortDesc(EngineCandidates(user_id, nbrs, ord)), num_recommendations)
      fetched == Ordered(Range(Ids(top)) \cap Published, ord)
  IN IF "collab" \in faults
       THEN get_trending_recommendations(num_recommendations, ord, faults)
     ELSE IF Cardinality(users) < 2 \/ Cardinality(contents) < 2
       THEN get_trending_recommendations(num_recommendations, ord, faults)
     ELSE IF user_id \notin users
       THEN get_trending_recommendations(num_recommendations, ord, faults)
     ELSE Ok([k \in 1..Len(fetched) |->
               [id |-> fetched[k],
                key |-> top[CHOOSE j \in 1..Len(top) : top[j].id = fetched[k]].key]])

\* -------------------------------------- get_preference_based_recommendations
\* score in units of 1/2000: category * 2.0 + author * 1.5 + tags * 1.0 + boost
PreferenceScore(c, prefs) ==
  LET days_old == now - Catalog[c].created_at
      recency_boost == Max(0, ((30 - days_old) * 200) \div 30)
      hits == TagSet(c) \cap DOMAIN prefs.tags
  IN (IF Catalog[c].category \in DOMAIN prefs.categories
        THEN 4 * prefs.categories[Catalog[c].category] ELSE 0)
   + (IF Catalog[c].author \in DOMAIN prefs.authors
        THEN 3 * prefs.authors[Catalog[c].author] ELSE 0)
   + 2 * SumOver(hits, [t \in hits |-> prefs.tags[t]])
   + 2 * recency_boost

\* faults: "pref" (a read of the body raises)
get_preference_based_recommendations(user_id, user_preferences, num_recommendations, ord, faults) ==
  LET all_content == Ordered(Published \ InteractedIds(user_id), ord)
      content_scores == [k \in 1..Len(all_content) |->
          [id |-> all_content[k], key |-> PreferenceScore(all_content[k], user_preferences)]]
  IN IF "pref" \in faults THEN <<>>
     ELSE Take(SortDesc(content_scores), num_recommendations)

\* ------------------------------------------------ get_hybrid_recommendations
\* recommendation_scores: weight * (1.0 - i * 0.05) summed per content id, in
\* thousandths; i is the 0-based rank in the strategy's list
RankScore(l, c, weight) ==
  IF c \in Range(Ids(l))
  THEN LET k == CHOOSE j \in 1..Len(l) : l[j].id = c
       IN weight * (20 - (k - 1))
  ELSE 0

EngineHybridCombine(content_based, collaborative, preference_based) ==
  LET order == Dedup(Ids(content_based) \o Ids(collaborative) \o Ids(preference_based))
  IN [k \in 1..Len(order) |->
        [id |-> order[k],
         key |-> RankScore(content_based, order[k], 20)
               + RankScore(collaborative, order[k], 15)
               + RankScore(preference_based, order[k], 15)]]

\* faults: "final" (the read of the content objects raises), and those of the
\* strategies and of the fallback
\* the sorted scores cut to num_recommendations, and the content objects of
\* those ids as the final query (no ORDER BY) returns them
FetchTop(combined, num_recommendations, ord) ==
  LET top == Take(SortDesc(combined), num_recommendations)
      fetched == Ordered(Range(Ids(top)), ord)
  IN [k \in 1..Len(fetched) |->
        [id |-> fetched[k],
         key |-> top[CHOOSE j \in 1..Len(top) : top[j].id = fetched[k]].key]]

\* the body of the try block, given what the three strategies returned
CombineStrategies(content_based, collaborative, preference_based, num_recommendations, ord, faults) ==
  IF content_based.raised \/ collaborative.raised \/ "final" \in faults
  THEN get_trending_recommendations(num_recommendations, ord, faults)
  ELSE Ok(FetchTop(EngineHybridCombine(content_based.list, collaborative.list,
                                       preference_based),
                   num_recommendations, ord))

engine_hybrid(user_id, num_recommendations, ord, faults) ==
  CombineStrategies(
    get_content_based_recommendations(user_id, num_recommendations * 2, ord, faults),
    engine_collaborative(user_id, num_recommendations * 2, ord, faults),
    get_preference_based_recommendations(
      user_id, analyze_user_behavior(user_id, ord, faults),
      num_recommendations * 2, ord, faults),
    num_recommendations, ord, faults)

\* ============================================ product_recommendation_engine
ActiveProducts == {p \in ProductIds : Products[p].is_active}

\* SUM(oi.quantity) of the user's order items on p, over the orders in a status
Purchased(u, p, st) ==
  LET mine == {o \in DOMAIN orders : orders[o].user = u /\ orders[o].status = st}
  IN SumOver(mine, [o \in mine |-> orders[o].items[p]])

\* --------------------------------------------------- build_user_product_matrix
\* The matrix as the dict is filled: a list of [user, items], items a list of
\* [id, key] with key the interaction score in tenths.  Purchase rows (orders
\* of status 'completed') come first, then cart rows at 0.3 per unit.
PairCode(u, p) == u * 100 + p
PairList(S, ord) ==
  LET codes == Ordered({PairCode(pr[1], pr[2]) : pr \in S}, ord)
  IN [k \in 1..Len(codes) |-> <<codes[k] \div 100, codes[k] % 100>>]

MatrixOf(ord) ==
  LET purchase_results == PairList({pr \in UserIds \X ProductIds :
                                     Purchased(pr[1], pr[2], "completed") > 0}, ord)
      cart_results == PairList({pr \in UserIds \X ProductIds : cart[pr[1]][pr[2]] > 0}, ord)
      rows == purchase_results \o cart_results
      users == Dedup([k \in 1..Len(rows) |-> rows[k][1]])
      itemsOf(u) == LET mine == SelectSeq(rows, LAMBDA r : r[1] = u)
                    IN Dedup([k \in 1..Len(mine) |-> mine[k][2]])
      score(u, p) == 10 * Purchased(u, p, "completed") + 3 * cart[u][p]
  IN [k \in 1..Len(users) |->
        [user |-> users[k],
         items |-> [j \in 1..Len(itemsOf(users[k])) |->
                      [id |-> itemsOf(users[k])[j],
                       key |-> score(users[k], itemsOf(users[k])[j])]]]]

build_user_product_matrix(ord, failed) ==
  IF failed THEN user_product_matrix ELSE MatrixOf(ord)

\* the matrix a request works with, and leaves behind: built when still empty
MatrixAfter(ord, faults) ==
  IF user_product_matrix # <<>> THEN user_product_matrix
  ELSE build_user_product_matrix(ord, "build" \in faults)

MatrixUserIds(m) == {m[k].user : k \in 1..Len(m)}
MatrixEntry(m, u) == m[CHOOSE k \in 1..Len(m) : m[k].user = u]
\* a user's row as a sparse vector: product -> score
ProductVector(m, u) ==
  LET e == MatrixEntry(m, u)
  IN [p \in Range(Ids(e.items)) |->
        e.items[CHOOSE j \in 1..Len(e.items) : e.items[j].id = p].key]

\* ------------------------------------- calculate_user_similarity (products)
\* magnitude2 = math.sqrt(<generator>) raises TypeError on every call that
\* reaches it; the except clause returns 0.0
product_calculate_user_similarity(user1_products, user2_products) ==
  LET common_products == DOMAIN user1_products \cap DOMAIN user2_products
      magnitude2 == "TypeError"
  IN IF common_products = {} THEN 0
     ELSE IF magnitude2 = "TypeError" THEN 0
     ELSE MilliRatioSqrt(DotCommon(user1_products, user2_products),
            SumOver(common_products, [p \in common_products |-> user1_products[p] * user1_products[p]])
          * SumOver(common_products, [p \in common_products |-> user2_products[p] * user2_products[p]]))

\* ------------------------------------------------------- get_popular_products
\* total_sold sums every order item of the product: the LEFT JOIN keeps the
\* order items of orders that are not 'completed'.  Entries carry score 0.5.
TotalSold(p) == SumOver(DOMAIN orders, [o \in DOMAIN orders |-> orders[o].items[p]])

get_popular_products(limit, ord, faults) ==
  LET act == Ordered(ActiveProducts, ord)
      ranked == SortDesc([k \in 1..Len(act) |->
                  [id |-> act[k],
                   key |-> TotalSold(act[k]) * Milli + Products[act[k]].created_at + 500]])
      results == Take(ranked, limit)
  IN IF "popular" \in faults THEN <<>>
     ELSE [k \in 1..Len(results) |-> [id |-> results[k].id, key |-> 500]]

\* -------------------------------------------- get_user_based_recommendations
ProductNeighbours(m, target) ==
  LET others == SelectSeq(Ids([k \in 1..Len(m) |-> [id |-> m[k].user]]),
                          LAMBDA u : u # target)
      withSim == [k \in 1..Len(others) |->
                    [id |-> others[k],
                     key |-> product_calculate_user_similarity(
                               ProductVector(m, target), ProductVector(m, others[k]))]]
  IN Take(SortDesc(SelectSeq(withSim, LAMBDA r : r.key > 100)), 10)

RECURSIVE ProductFlatten(_, _, _)
ProductFlatten(m, nbrs, k) ==
  IF k > Len(nbrs) THEN <<>>
  ELSE Ids(MatrixEntry(m, nbrs[k].id).items) \o ProductFlatten(m, nbrs, k + 1)

\* product_scores[p] times total_similarity (tenths): sum of similarity * score
ProductCandidates(m, nbrs, target) ==
  LET seen == DOMAIN ProductVector(m, target)
      order == Dedup(SelectSeq(ProductFlatten(m, nbrs, 1), LAMBDA p : p \notin seen))
      score(p) == LET idx == {k \in DOMAIN nbrs : p \in DOMAIN ProductVector(m, nbrs[k].id)}
                  IN SumOver(idx, [k \in idx |-> nbrs[k].key * ProductVector(m, nbrs[k].id)[p]])
  IN [k \in 1..Len(order) |-> [id |-> order[k], key |-> score(order[k])]]

\* faults: "build", "user_based" (a read of the body raises), "popular".
\* Entries [id, key] with key the score in thousandths.
get_user_based_recommendations(target_user_id, limit, ord, faults) ==
  LET m == MatrixAfter(ord, faults)
      nbrs == ProductNeighbours(m, target_user_id)
      total_similarity == SumOver(DOMAIN nbrs, [k \in DOMAIN nbrs |-> nbrs[k].key])
      top == Take(SortDesc(ProductCandidates(m, nbrs, target_user_id)), limit)
      shown == SelectSeq(top, LAMBDA r : r.id \in ActiveProducts)
  IN IF "user_based" \in faults THEN get_popular_products(limit, ord, faults)
     ELSE IF target_user_id \notin MatrixUserIds(m) THEN get_popular_products(limit, ord, faults)
     ELSE IF nbrs = <<>> THEN get_popular_products(limit, ord, faults)
     ELSE [k \in 1..Len(shown) |->
             [id |-> shown[k].id, key |-> (100 * shown[k].key) \div total_similarity]]

\* -------------------------------------------- get_item_based_recommendations
\* product_users: for each product of the matrix, in the order the products
\* are first met, the users who hold it with their score
ProductUsersOrder(m) ==
  LET RECURSIVE AllItems(_)
      AllItems(k) == IF k > Len(m) THEN <<>> ELSE Ids(m[k].items) \o AllItems(k + 1)
  IN Dedup(AllItems(1))

ProductUsers(m, pid) ==
  [u \in {v \in MatrixUserIds(m) : pid \in DOMAIN ProductVector(m, v)} |->
     ProductVector(m, u)[pid]]

\* faults: "build", "popular".  Entries [id, key] with key the similarity.
get_item_based_recommendations(product_id, limit, ord, faults) ==
  LET m == MatrixAfter(ord, faults)
      others == SelectSeq(ProductUsersOrder(m), LAMBDA pid : pid # product_id)
      withSim == [k \in 1..Len(others) |->
                    [id |-> others[k],
                     key |-> product_calculate_user_similarity(
                               ProductUsers(m, product_id), ProductUsers(m, others[k]))]]
      product_similarities == SortDesc(SelectSeq(withSim, LAMBDA r : r.key > 100))
  IN IF product_id \notin Range(ProductUsersOrder(m))
     THEN get_popular_products(limit, ord, faults)
     ELSE SelectSeq(Take(product_similarities, limit), LAMBDA r : r.id \in ActiveProducts)

\* ---------------------------------------- get_category_based_recommendations
\* faults: "category" (a read of the body raises), "popular"
CategoryPurchased(u, cat) ==
  LET ps == {p \in ProductIds : Products[p].category = cat}
  IN SumOver(ps, [p \in ps |-> Purchased(u, p, "completed")])

RECURSIVE CategoryFill(_, _, _, _, _)
CategoryFill(cats, k, purchased, limit, ord) ==
  IF k > Len(cats) THEN <<>>
  ELSE LET ps == Ordered({p \in ActiveProducts :
                            Products[p].category = cats[k].id /\ p \notin purchased}, ord)
           newest == Take(SortDesc([j \in 1..Len(ps) |->
                       [id |-> ps[j], key |-> Products[ps[j]].created_at]]), limit)
       IN [j \in 1..Len(newest) |-> [id |-> newest[j].id, key |-> 800]]
          \o CategoryFill(cats, k + 1, purchased, limit, ord)

get_category_based_recommendations(user_id, limit, ord, faults) ==
  LET catset == {Products[p].category : p \in ProductIds}
      bought == {c \in catset : CategoryPurchased(user_id, c) > 0}
      names == Ordered({CHOOSE p \in ProductIds : Products[p].category = c : c \in bought}, ord)
      results == Take(SortDesc([k \in 1..Len(names) |->
                   [id |-> Products[names[k]].category,
                    key |-> CategoryPurchased(user_id, Products[names[k]].category)]]), 3)
      purchased_product_ids == {p \in ProductIds : Purchased(user_id, p, "completed") > 0}
  IN IF "category" \in faults THEN get_popular_products(limit, ord, faults)
     ELSE IF results = <<>> THEN get_popular_products(limit, ord, faults)
     ELSE Take(CategoryFill(results, 1, purchased_product_ids, limit, ord), limit)

\* ------------------------------------------------ get_hybrid_recommendations
RECURSIVE AppendUnseen(_, _, _, _)
\* append the entries of l (from position k) whose id is not yet in acc,
\* while acc is shorter than cap
AppendUnseen(acc, l, k, cap) ==
  IF k > Len(l) THEN acc
  ELSE IF l[k].id \notin Range(Ids(acc)) /\ Len(acc) < cap
       THEN AppendUnseen(Append(acc, l[k]), l, k + 1, cap)
       ELSE AppendUnseen(acc, l, k + 1, cap)

\* the user-based entries with their score boosted: rec['score'] *= 1.2
Boosted(user_based) ==
  [k \in 1..Len(user_based) |->
     [id |-> user_based[k].id, key |-> (user_based[k].key * 6) \div 5]]

\* "Fill remaining slots with popular products"
FillPopular(recommendations, limit, ord, faults) ==
  IF Len(recommendations) < limit
  THEN AppendUnseen(recommendations,
                    get_popular_products(limit - Len(recommendations), ord, faults),
                    1, Len(recommendations) + limit + 1)
  ELSE recommendations

\* the user-based entries (all of them), then the category-based ones while
\* the list is shorter than limit, then the popular ones; cut to limit
CombineProducts(user_based, category_based, limit, ord, faults) ==
  Take(FillPopular(AppendUnseen(AppendUnseen(<<>>, Boosted(user_based), 1,
                                             Len(user_based) + 1),
                                category_based, 1, limit),
                   limit, ord, faults),
       limit)

product_hybrid(user_id, limit, ord, faults) ==
  CombineProducts(get_user_based_recommendations(user_id, limit \div 2 + 1, ord, faults),
                  get_category_based_recommendations(user_id, limit \div 2 + 1, ord, faults),
                  limit, ord, faults)

\* ==================================================== user_type_classifier
tech_keywords ==
  [programming |-> {"code", "programming", "development", "software", "api",
                    "database", "algorithm", "framework", "library", "python",
                    "javascript", "react", "node.js", "sql", "html", "css", "git",
                    "github", "docker", "kubernetes", "cloud", "aws", "azure",
                    "deployment", "server", "backend", "frontend", "full-stack",
                    "devops", "ci/cd", "testing", "debugging", "refactoring"},
   tech_concepts |-> {"machine learning", "ai", "artificial intelligence",
                      "data science", "cybersecurity", "blockchain", "iot",
                      "automation", "integration", "architecture", "microservices",
                      "scalability", "performance", "optimization", "analytics",
                      "big data", "neural network"},
   technical_roles |-> {"developer", "engineer", "programmer", "architect", "devops",
                        "data scientist", "analyst", "technical lead", "cto",
                        "tech team"}]

business_keywords ==
  [strategy |-> {"strategy", "business model", "revenue", "profit", "growth",
                 "market", "customer", "client", "sales", "marketing", "roi", "kpi",
                 "metrics", "budget", "finance", "investment", "stakeholder",
                 "partnership"},
   management |-> {"management", "leadership", "team", "project management", "agile",
                   "scrum", "planning", "roadmap", "milestone", "delivery",
                   "timeline", "resource", "allocation", "efficiency",
                   "productivity", "workflow"},
   business_roles |-> {"manager", "director", "ceo", "cfo", "cmo", "vp", "executive",
                       "business analyst", "product manager", "project manager",
                       "consultant", "stakeholder", "decision maker"}]

category_mapping ==
  [tech |-> {"Tutorial", "Documentation", "Technical Guide", "API Reference"},
   business |-> {"Business Plan", "Market Analysis", "Strategy Document",
                 "Financial Report"},
   mixed |-> {"Product Description", "Blog Post", "News Article", "General Content"}]

\* A text is held as the set of its phrases (separated by blanks).  For each
\* phrase of the vocabulary: the keywords that are substrings of it
\* ("keyword in text"), and the regular expressions of the two scorers that
\* it matches (the text has been lowercased).
Phrases ==
  [p \in {"python", "sql", "html", "github", "devops", "blockchain", "import",
          "select", "os.getcwd()", "revenue", "stakeholder", "manager", "agile",
          "team", "5%"} |->
     CASE p = "github" -> [keywords |-> {"git", "github"}, patterns |-> {}]
       [] p = "blockchain" -> [keywords |-> {"ai", "blockchain"}, patterns |-> {}]
       [] p = "import" -> [keywords |-> {}, patterns |-> {"syntax"}]
       [] p = "select" -> [keywords |-> {}, patterns |-> {"sql"}]
       [] p = "os.getcwd()" -> [keywords |-> {}, patterns |-> {"method_call"}]
       [] p = "revenue" -> [keywords |-> {"revenue"}, patterns |-> {"money"}]
       [] p = "5%" -> [keywords |-> {}, patterns |-> {"financial"}]
       [] OTHER -> [keywords |-> {p}, patterns |-> {}]]

\* sum(1 for keyword in keywords if keyword in text)
Matches(keywords, text) ==
  Cardinality(keywords \cap UNION {Phrases[p].keywords : p \in text})
\* re.search(pattern, text)
Search(pattern, text) == \E p \in text : pattern \in Phrases[p].patterns

\* _calculate_tech_score, in hundredths
calculate_tech_score(text, category) ==
  LET word_count == Cardinality(text)
      score == (IF category \in category_mapping.tech THEN 40 ELSE 0)
             + Matches(tech_keywords.programming, text) * 8
             + Matches(tech_keywords.tech_concepts, text) * 6
             + Matches(tech_keywords.technical_roles, text) * 4
             + (IF Search("syntax", text) THEN 20 ELSE 0)
             + (IF Search("sql", text) THEN 15 ELSE 0)
             + (IF Search("method_call", text) THEN 10 ELSE 0)
  IN IF word_count = 0 THEN 0 ELSE Min(score, 100)

\* _calculate_business_score, in hundredths
calculate_business_score(text, category) ==
  LET word_count == Cardinality(text)
      score == (IF category \in category_mapping.business THEN 40 ELSE 0)
             + Matches(business_keywords.strategy, text) * 8
             + Matches(business_keywords.management, text) * 6
             + Matches(business_keywords.business_roles, text) * 4
             + (IF Search("financial", text) THEN 15 ELSE 0)
             + (IF Search("change", text) THEN 10 ELSE 0)
             + (IF Search("money", text) THEN 10 ELSE 0)
  IN IF word_count = 0 THEN 0 ELSE Min(score, 100)

\* classify_content with ties going to 'tech'
classify_content_ties_tech(full_text, category) ==
  LET tech_score == calculate_tech_score(full_text, category)
      business_score == calculate_business_score(full_text, category)
  IN IF tech_score >= business_score /\ tech_score > 30 THEN "tech"
     ELSE IF business_score > tech_score /\ business_score > 30 THEN "business"
     ELSE "mixed"

\* classify_content: full_text is title, content and tags joined and lowercased
classify_content(full_text, category) ==
  LET tech_score == calculate_tech_score(full_text, category)
      business_score == calculate_business_score(full_text, category)
  IN IF tech_score > business_score /\ tech_score > 30 THEN "tech"
     ELSE IF business_score > tech_score /\ business_score > 30 THEN "business"
     ELSE "mixed"

\* ================================================================== state
NoResp == [op |-> "none", user |-> 0, item |-> 0, n |-> 0, ord |-> "asc",
           faults |-> {}, raised |-> FALSE, list |-> <<>>,
           profile |-> DefaultPreferences]

Resp(op, u, c, n, ord, faults, out) ==
  [op |-> op, user |-> u, item |-> c, n |-> n, ord |-> ord, faults |-> faults,
   raised |-> out.raised, list |-> out.list, profile |-> DefaultPreferences]

Idle == resp.op = "none"

\* no vectors handed to a scorer
NoPair == [user1 |-> <<>>, user2 |-> <<>>, scorer |-> "none",
           forward |-> 0, backward |-> 0, self |-> 0]

\* no pure function called
NoCall == [fn |-> "none"]

EmptyCart == [u \in UserIds |-> [p \in ProductIds |-> 0]]

Init ==
  /\ domain \in {"content", "shop"}
  /\ status = [c \in ContentIds |-> "Published"]
  /\ interactions = <<>>
  /\ now = 0
  /\ content_features = NoFeatures
  /\ cart = EmptyCart
  /\ orders = <<>>
  /\ stock = [p \in ProductIds |-> InitialStock]
  /\ user_product_matrix = <<>>
  /\ resp = NoResp
  /\ pair = NoPair
  /\ call = NoCall

ShopVars == <<cart, orders, stock, user_product_matrix>>
ContentVars == <<status, interactions, now, content_features>>

\* ------------------------------------------------------------ content writes
\* the CHECK constraints of user_interactions
INTERACTION_TYPES == {"view", "edit", "like", "share", "delete"}
\* RowAccepted without interaction_score_positive_check
RowAcceptedAnyScore(r) == r.type \in INTERACTION_TYPES
RowAccepted(r) == r.score >= 0 /\ r.type \in INTERACTION_TYPES

\* track_user_interaction of app.py: add a row and commit; a rejected row is
\* rolled back
TrackUserInteraction(u, c, t, sc) ==
  /\ Idle /\ domain = "content"
  /\ interactions' = IF RowAccepted(Row(u, c, t, sc, now))
                     THEN Append(interactions, Row(u, c, t, sc, now))
                     ELSE interactions
  /\ UNCHANGED <<domain, status, now, content_features, resp>>
  /\ UNCHANGED ShopVars /\ UNCHANGED <<pair, call>>

\* action_mapping of track_recommendation_feedback: type and score (halves)
FeedbackActions == {"clicked", "liked", "shared", "dismissed", "saved"}
ActionType(a) ==
  CASE a = "clicked" -> "view" [] a = "liked" -> "like" [] a = "shared" -> "share"
    [] a = "dismissed" -> "view" [] a = "saved" -> "like"
ActionScore(a) ==
  CASE a = "clicked" -> 2 [] a = "liked" -> 4 [] a = "shared" -> 5
    [] a = "dismissed" -> -1 [] a = "saved" -> 6

\* track_recommendation_feedback: update the first matching row (which one
\* .first() returns is not defined) or add a row; commit, or roll back when
\* the CHECK constraint rejects the row
TrackRecommendationFeedback(u, c, a) ==
  LET matches == {i \in RowIds : /\ interactions[i].user = u
                                 /\ interactions[i].content = c
                                 /\ interactions[i].type = ActionType(a)}
  IN /\ Idle /\ domain = "content"
     /\ IF matches # {}
        THEN \E i \in matches :
               LET upd == [interactions[i] EXCEPT !.score = @ + ActionScore(a), !.ts = now]
               IN /\ interactions' = IF RowAccepted(upd)
                                     THEN [interactions EXCEPT ![i] = upd]
                                     ELSE interactions
        ELSE /\ interactions' =
                  IF RowAccepted(Row(u, c, ActionType(a), ActionScore(a), now))
                  THEN Append(interactions, Row(u, c, ActionType(a), ActionScore(a), now))
                  ELSE interactions
     /\ UNCHANGED <<domain, status, now, content_features, resp>>
     /\ UNCHANGED ShopVars /\ UNCHANGED <<pair, call>>

\* update_content_status of app.py
UpdateContentStatus(c, s) ==
  /\ Idle /\ domain = "content"
  /\ status[c] # s
  /\ status' = [status EXCEPT ![c] = s]
  /\ UNCHANGED <<domain, interactions, now, content_features, resp>>
  /\ UNCHANGED ShopVars /\ UNCHANGED <<pair, call>>

\* time passes
AdvanceClock(d) ==
  /\ Idle /\ domain = "content"
  /\ now + d <= MaxClock
  /\ now' = now + d
  /\ UNCHANGED <<domain, status, interactions, content_features, resp>>
  /\ UNCHANGED ShopVars /\ UNCHANGED <<pair, call>>

\* ----------------------------------------------------------- content reads
ReadOnly == UNCHANGED <<domain, status, interactions, now, content_features>> /\ UNCHANGED ShopVars /\ UNCHANGED <<pair, call>>

AppSimilar(c, n, ord) ==
  /\ Idle /\ domain = "content"
  /\ resp' = Resp("app_similar", 0, c, n, ord, {}, Ok(get_content_recommendations(c, n, ord)))
  /\ ReadOnly

AppCollaborative(u, n, ord, faults) ==
  /\ Idle /\ domain = "content"
  /\ resp' = Resp("app_cf", u, 0, n, ord, faults,
                  Ok(get_collaborative_filtering_recommendations(u, n, ord, faults)))
  /\ ReadOnly

AppHybrid(c, u, n, ord, faults) ==
  /\ Idle /\ domain = "content"
  /\ resp' = Resp("app_hybrid", u, c, n, ord, faults,
                  app_get_hybrid_recommendations(c, u, n, ord, faults))
  /\ ReadOnly

\* get_trending_content of app.py (the index and dashboard pages)
AppTrending(n, ord) ==
  /\ Idle /\ domain = "content"
  /\ resp' = Resp("app_trending", 0, 0, n, ord, {}, Ok(get_trending_content(n, ord)))
  /\ ReadOnly

EngineTrending(n, ord, faults) ==
  /\ Idle /\ domain = "content"
  /\ resp' = Resp("trending", 0, 0, n, ord, faults, get_trending_recommendations(n, ord, faults))
  /\ ReadOnly

EngineAnalyze(u, ord, faults) ==
  /\ Idle /\ domain = "content"
  /\ resp' = [Resp("analyze", u, 0, 0, ord, faults, Ok(<<>>))
                EXCEPT !.profile = analyze_user_behavior(u, ord, faults)]
  /\ ReadOnly

EngineContentBased(u, n, ord, faults) ==
  /\ Idle /\ domain = "content"
  /\ resp' = Resp("content_based", u, 0, n, ord, faults,
                  get_content_based_recommendations(u, n, ord, faults))
  /\ content_features' = FeaturesAfter(ord, faults)
  /\ UNCHANGED <<domain, status, interactions, now>>
  /\ UNCHANGED ShopVars /\ UNCHANGED <<pair, call>>

EngineCollaborative(u, n, ord, faults) ==
  /\ Idle /\ domain = "content"
  /\ resp' = Resp("collaborative", u, 0, n, ord, faults,
                  engine_collaborative(u, n, ord, faults))
  /\ ReadOnly

EnginePreference(u, n, ord, faults) ==
  /\ Idle /\ domain = "content"
  /\ resp' = Resp("preference", u, 0, n, ord, faults,
                  Ok(get_preference_based_recommendations(
                       u, analyze_user_behavior(u, ord, faults), n, ord, faults)))
  /\ ReadOnly

EngineHybrid(u, n, ord, faults) ==
  /\ Idle /\ domain = "content"
  /\ resp' = Resp("hybrid", u, 0, n, ord, faults, engine_hybrid(u, n, ord, faults))
  /\ content_features' = FeaturesAfter(ord, faults)
  /\ UNCHANGED <<domain, status, interactions, now>>
  /\ UNCHANGED ShopVars /\ UNCHANGED <<pair, call>>

\* the response is handed to the caller
Deliver ==
  /\ ~Idle
  /\ resp' = NoResp
  /\ UNCHANGED <<domain, status, interactions, now, content_features>>
  /\ UNCHANGED ShopVars /\ UNCHANGED <<pair, call>>

\* -------------------------------------------------------------- shop writes
CartUnits == SumOver(UserIds \X ProductIds,
                     [pr \in UserIds \X ProductIds |-> cart[pr[1]][pr[2]]])

\* add_to_cart of app.py
AddToCart(u, p, quantity) ==
  /\ Idle /\ domain = "shop"
  /\ CartUnits + quantity <= MaxCart
  /\ Products[p].is_active
  /\ stock[p] >= quantity
  /\ cart' = [cart EXCEPT ![u][p] = @ + quantity]
  /\ UNCHANGED <<orders, stock, user_product_matrix, resp>>
  /\ UNCHANGED <<domain, status, interactions, now, content_features, pair, call>>

\* remove_from_cart of app.py
RemoveFromCart(u, p) ==
  /\ Idle /\ domain = "shop"
  /\ cart[u][p] > 0
  /\ cart' = [cart EXCEPT ![u][p] = 0]
  /\ UNCHANGED <<orders, stock, user_product_matrix, resp>>
  /\ UNCHANGED <<domain, status, interactions, now, content_features, pair, call>>

\* checkout of app.py: an order (status 'pending') with the cart's items
Checkout(u) ==
  /\ Idle /\ domain = "shop"
  /\ \E p \in ActiveProducts : cart[u][p] > 0
  /\ orders' = Append(orders, [user |-> u, status |-> "pending",
                               payment_status |-> "pending",
                               items |-> [p \in ProductIds |->
                                            IF p \in ActiveProducts THEN cart[u][p] ELSE 0]])
  /\ UNCHANGED <<cart, stock, user_product_matrix, resp>>
  /\ UNCHANGED <<domain, status, interactions, now, content_features, pair, call>>

\* payment_success of app.py: the order becomes 'paid', stock is reduced, the
\* cart is cleared; the commit fails (and all is rolled back) when a stock
\* would become negative (stock_positive_check)
PaymentSuccess(u, o) ==
  /\ Idle /\ domain = "shop"
  /\ o \in DOMAIN orders /\ orders[o].user = u
  /\ LET newStock == [p \in ProductIds |-> stock[p] - orders[o].items[p]]
     IN IF \A p \in ProductIds : newStock[p] >= 0
        THEN /\ orders' = [orders EXCEPT ![o].status = "paid", ![o].payment_status = "paid"]
             /\ stock' = newStock
             /\ cart' = [cart EXCEPT ![u] = [p \in ProductIds |-> 0]]
        ELSE UNCHANGED <<orders, stock, cart>>
  /\ UNCHANGED <<user_product_matrix, resp>>
  /\ UNCHANGED <<domain, status, interactions, now, content_features, pair, call>>

\* payment_cancel of app.py
PaymentCancel(u, o) ==
  /\ Idle /\ domain = "shop"
  /\ o \in DOMAIN orders /\ orders[o].user = u
  /\ orders' = [orders EXCEPT ![o].status = "cancelled", ![o].payment_status = "failed"]
  /\ UNCHANGED <<cart, stock, user_product_matrix, resp>>
  /\ UNCHANGED <<domain, status, interactions, now, content_features, pair, call>>

\* --------------------------------------------------------------- shop reads
ProductPopular(n, ord, faults) ==
  /\ Idle /\ domain = "shop"
  /\ resp' = Resp("popular", 0, 0, n, ord, faults, Ok(get_popular_products(n, ord, faults)))
  /\ UNCHANGED ShopVars
  /\ UNCHANGED <<domain, status, interactions, now, content_features, pair, call>>

ProductUserBased(u, n, ord, faults) ==
  /\ Idle /\ domain = "shop"
  /\ resp' = Resp("user_based", u, 0, n, ord, faults,
                  Ok(get_user_based_recommendations(u, n, ord, faults)))
  /\ user_product_matrix' = IF "user_based" \in faults THEN user_product_matrix
                            ELSE MatrixAfter(ord, faults)
  /\ UNCHANGED <<cart, orders, stock>>
  /\ UNCHANGED <<domain, status, interactions, now, content_features, pair, call>>

ProductItemBased(p, n, ord, faults) ==
  /\ Idle /\ domain = "shop"
  /\ resp' = Resp("item_based", 0, p, n, ord, faults,
                  Ok(get_item_based_recommendations(p, n, ord, faults)))
  /\ user_product_matrix' = MatrixAfter(ord, faults)
  /\ UNCHANGED <<cart, orders, stock>>
  /\ UNCHANGED <<domain, status, interactions, now, content_features, pair, call>>

ProductCategoryBased(u, n, ord, faults) ==
  /\ Idle /\ domain = "shop"
  /\ resp' = Resp("category_based", u, 0, n, ord, faults,
                  Ok(get_category_based_recommendations(u, n, ord, faults)))
  /\ UNCHANGED ShopVars
  /\ UNCHANGED <<domain, status, interactions, now, content_features, pair, call>>

ProductHybrid(u, n, ord, faults) ==
  /\ Idle /\ domain = "shop"
  /\ resp' = Resp("product_hybrid", u, 0, n, ord, faults, Ok(product_hybrid(u, n, ord, faults)))
  /\ user_product_matrix' = IF "user_based" \in faults THEN user_product_matrix
                            ELSE MatrixAfter(ord, faults)
  /\ UNCHANGED <<cart, orders, stock>>
  /\ UNCHANGED <<domain, status, interactions, now, content_features, pair, call>>

\* ------------------------------------------------------------ specification
Sizes == 1..MaxN
ClockSteps == {46}
\* the (type, score) pairs of the calls of track_user_interaction in app.py
\* that name a content id: view 1.0, edit 1.5, create 2.0
TrackInputs == {<<"view", 2>>, <<"edit", 3>>, <<"create", 4>>}

\* ------------------------------------------------------ similarity scorers
\* Sparse vectors: a weight for each key of a set of item ids.
Keys == 1..MaxKeys
Weights == 0..MaxWeight
Vectors == UNION {[K -> Weights] : K \in SUBSET Keys}

\* calculate_user_similarity of app.py applied to the pair, both ways round,
\* and to the first vector with itself
ScoreContentPair ==
  /\ domain = "scorer"
  /\ pair' = [pair EXCEPT
       !.scorer = "content",
       !.forward = calculate_user_similarity(pair.user1, pair.user2),
       !.backward = calculate_user_similarity(pair.user2, pair.user1),
       !.self = calculate_user_similarity(pair.user1, pair.user1)]
  /\ UNCHANGED <<domain, resp, call>> /\ UNCHANGED ContentVars /\ UNCHANGED ShopVars

\* ProductRecommendationEngine.calculate_user_similarity applied likewise
ScoreProductPair ==
  /\ domain = "scorer"
  /\ pair' = [pair EXCEPT
       !.scorer = "product",
       !.forward = product_calculate_user_similarity(pair.user1, pair.user2),
       !.backward = product_calculate_user_similarity(pair.user2, pair.user1),
       !.self = product_calculate_user_similarity(pair.user1, pair.user1)]
  /\ UNCHANGED <<domain, resp, call>> /\ UNCHANGED ContentVars /\ UNCHANGED ShopVars

\* ------------------------------------------------------------ pure calls
\* Rows of the content table that differ in category, author, tags column
\* (up to MaxTags comma-separated parts, "" a blank one) and body keywords.
TagColumns == UNION {[1..n -> {"", "python", "web"}] : n \in 0..MaxTags}
Items == [category : {"Tutorial", "News"}, author : {"ann", "bob"},
          tags : TagColumns, keywords : SUBSET {"flask", "route"}]

\* calculate_content_similarity of app.py applied to two items
ScoreItems ==
  /\ domain = "pure" /\ call.fn = "calculate_content_similarity" /\ ~call.done
  /\ call' = [call EXCEPT !.done = TRUE,
                !.out = calculate_content_similarity(call.args[1], call.args[2])]
  /\ UNCHANGED <<domain, resp, pair>> /\ UNCHANGED ContentVars /\ UNCHANGED ShopVars

\* the texts and categories handed to the classifier
Texts == SUBSET DOMAIN Phrases
Categories == {"Tutorial", "Market Analysis", "News Article"}

\* UserTypeClassifier.classify_content applied to a text and a category
Classify ==
  /\ domain = "pure" /\ call.fn = "classify_content" /\ ~call.done
  /\ call' = [call EXCEPT !.done = TRUE,
                !.out = [label |-> classify_content(call.args[1], call.args[2]),
                         tech_score |-> calculate_tech_score(call.args[1], call.args[2]),
                         business_score |->
                           calculate_business_score(call.args[1], call.args[2])]]
  /\ UNCHANGED <<domain, resp, pair>> /\ UNCHANGED ContentVars /\ UNCHANGED ShopVars

\* The sites of a request where a collaborator read raises.
AppFaultSets == {{}, {"content_based"}, {"content_based", "fallback"}}
AppCFFaultSets == {{}, {"matrix"}, {"fetch"}}
TrendingFaultSets == {{}, {"trending"}, {"trending", "trending_fallback"}}
ContentBasedFaultSets == {{}, {"build"}, {"content_based"},
                          {"content_based", "trending", "trending_fallback"}}
CollaborativeFaultSets == {{}, {"collab"}, {"collab", "trending", "trending_fallback"}}
PreferenceFaultSets == {{}, {"pref"}, {"analyze"}}
AnalyzeFaultSets == {{}, {"analyze"}}
EngineFaultSets ==
  {{}, {"final"}, {"final", "trending", "trending_fallback"},
   {"content_based", "collab", "pref"},
   {"analyze", "build", "content_based", "collab", "pref", "final",
    "trending", "trending_fallback"}}
ItemBasedFaultSets == {{}, {"build"}}
ShopFaultSets == {{}, {"build"}, {"user_based", "category"},
                  {"build", "user_based", "category", "popular"}}

\* the model's bound on the score a row accumulates
ScoresCapped == \A i \in RowIds : interactions[i].score <= MaxScore
\* the user whose requests are followed (writes come from every user)
Requesters == {1}

\* Requests for recommendations, on a store filled by page views and edits.
Next ==
  \/ \E u \in UserIds, c \in ContentIds, in \in TrackInputs :
       TrackUserInteraction(u, c, in[1], in[2]) /\ Len(interactions') <= MaxRows
  \/ \E c \in ContentIds, n \in Sizes, ord \in RowOrders : AppSimilar(c, n, ord)
  \/ \E u \in Requesters, n \in Sizes, ord \in RowOrders, f \in AppCFFaultSets :
       AppCollaborative(u, n, ord, f)
  \/ \E c \in ContentIds, u \in Requesters, n \in Sizes, ord \in RowOrders, f \in AppFaultSets :
       AppHybrid(c, u, n, ord, f)
  \/ \E n \in Sizes, ord \in RowOrders, f \in TrendingFaultSets : EngineTrending(n, ord, f)
  \/ \E u \in Requesters, n \in Sizes, ord \in RowOrders, f \in ContentBasedFaultSets :
       EngineContentBased(u, n, ord, f)
  \/ \E u \in Requesters, n \in Sizes, ord \in RowOrders, f \in CollaborativeFaultSets :
       EngineCollaborative(u, n, ord, f)
  \/ \E u \in Requesters, n \in Sizes, ord \in RowOrders, f \in PreferenceFaultSets :
       EnginePreference(u, n, ord, f)
  \/ \E u \in Requesters, n \in Sizes, ord \in RowOrders, f \in EngineFaultSets :
       EngineHybrid(u, n, ord, f)
  \/ \E u \in UserIds, p \in ProductIds : AddToCart(u, p, 1)
  \/ \E u \in UserIds : Len(orders) < MaxOrders /\ Checkout(u)
  \/ \E n \in Sizes, ord \in RowOrders, f \in ShopFaultSets : ProductPopular(n, ord, f)
  \/ \E u \in Requesters, n \in Sizes, ord \in RowOrders, f \in ShopFaultSets :
       ProductUserBased(u, n, ord, f)
  \/ \E p \in ProductIds, n \in Sizes, ord \in RowOrders, f \in ItemBasedFaultSets :
       ProductItemBased(p, n, ord, f)
  \/ \E u \in Requesters, n \in Sizes, ord \in RowOrders, f \in ShopFaultSets :
       ProductCategoryBased(u, n, ord, f)
  \/ \E u \in Requesters, n \in Sizes, ord \in RowOrders, f \in ShopFaultSets :
       ProductHybrid(u, n, ord, f)
  \/ Deliver

Spec == Init /\ [][Next]_vars

\* The interaction store of one user under every writer of rows, the clock and
\* status changes, with the behaviour analyzer reading it (for that user and
\* for a user without rows).
NextStore ==
  \/ \E u \in Requesters, c \in ContentIds, in \in TrackInputs :
       TrackUserInteraction(u, c, in[1], in[2]) /\ Len(interactions') <= MaxStoreRows
  \/ \E u \in Requesters, c \in ContentIds, a \in FeedbackActions :
       /\ TrackRecommendationFeedback(u, c, a)
       /\ Len(interactions') <= MaxStoreRows
       /\ ScoresCapped'
  \/ \E c \in ContentIds, s \in {"Draft", "Published"} : UpdateContentStatus(c, s)
  \/ \E d \in ClockSteps : AdvanceClock(d)
  \/ \E u \in UserIds, ord \in RowOrders, f \in AnalyzeFaultSets : EngineAnalyze(u, ord, f)
  \/ Deliver

InitStore == Init /\ domain = "content"
SpecStore == InitStore /\ [][NextStore]_vars

\* The two similarity scorers on every pair of bounded sparse vectors.
NextSim == ScoreContentPair \/ ScoreProductPair

InitSim ==
  /\ domain = "scorer"
  /\ status = [c \in ContentIds |-> "Published"]
  /\ interactions = <<>>
  /\ now = 0
  /\ content_features = NoFeatures
  /\ cart = EmptyCart
  /\ orders = <<>>
  /\ stock = [p \in ProductIds |-> InitialStock]
  /\ user_product_matrix = <<>>
  /\ resp = NoResp
  /\ \E a \in Vectors, b \in Vectors : pair = [NoPair EXCEPT !.user1 = a, !.user2 = b]
  /\ call = NoCall

SpecSim == InitSim /\ [][NextSim]_vars

\* The popularity operations on a catalog whose items are published and
\* withdrawn, as time passes, interactions are stored and carts are ordered.
NextPopularity ==
  \/ \E c \in ContentIds, s \in {"Draft", "Published"} : UpdateContentStatus(c, s)
  \/ \E d \in ClockSteps : AdvanceClock(d)
  \/ \E u \in Requesters, c \in ContentIds :
       TrackUserInteraction(u, c, "view", 2) /\ Len(interactions') <= MaxStoreRows
  \/ \E n \in Sizes, ord \in RowOrders : AppTrending(n, ord)
  \/ \E n \in Sizes, ord \in RowOrders, f \in TrendingFaultSets : EngineTrending(n, ord, f)
  \/ \E u \in Requesters, p \in ProductIds : AddToCart(u, p, 1)
  \/ \E u \in Requesters : Len(orders) < MaxOrders /\ Checkout(u)
  \/ \E n \in Sizes, ord \in RowOrders, f \in {{}, {"popular"}} : ProductPopular(n, ord, f)
  \/ Deliver

SpecPopularity == Init /\ [][NextPopularity]_vars

\* The shop: carts, checkout and the payment callbacks, with the product
\* engine asked for the popular products.
Limits == 1..MaxLimit
NextShop ==
  \/ \E u \in UserIds, p \in ProductIds : AddToCart(u, p, 1)
  \/ \E u \in UserIds, p \in ProductIds : RemoveFromCart(u, p)
  \/ \E u \in UserIds : Len(orders) < MaxOrders /\ Checkout(u)
  \/ \E u \in UserIds, o \in 1..MaxOrders : PaymentSuccess(u, o)
  \/ \E u \in UserIds, o \in 1..MaxOrders : PaymentCancel(u, o)
  \/ \E n \in Limits, ord \in RowOrders : ProductPopular(n, ord, {})
  \/ Deliver

InitShop == Init /\ domain = "shop"
SpecShop == InitShop /\ [][NextShop]_vars

\* The product engine's hybrid recommendations, for every limit up to the
\* number of active products, over carts and pending orders.
NextHybrid ==
  \/ \E u \in UserIds, p \in ProductIds : AddToCart(u, p, 1)
  \/ \E u \in UserIds : Len(orders) < MaxOrders /\ Checkout(u)
  \/ \E u \in Requesters, n \in Limits, ord \in RowOrders : ProductHybrid(u, n, ord, {})
  \/ Deliver

SpecHybrid == InitShop /\ [][NextHybrid]_vars

\* The engine's feature cache: content is published and unpublished, one
\* user views content, and the content-based and hybrid recommendations are
\* asked for.
NextCache ==
  \/ \E c \in ContentIds, s \in {"Draft", "Published"} : UpdateContentStatus(c, s)
  \/ \E u \in Requesters, c \in ContentIds :
       TrackUserInteraction(u, c, "view", 2) /\ Len(interactions') <= MaxStoreRows
  \/ \E u \in Requesters, n \in Sizes, ord \in RowOrders, f \in {{}, {"build"}} :
       EngineContentBased(u, n, ord, f)
  \/ \E u \in Requesters, n \in Sizes, ord \in RowOrders : EngineHybrid(u, n, ord, {})
  \/ Deliver

InitCache == Init /\ domain = "content"
SpecCache == InitCache /\ [][NextCache]_vars

\* The content similarity and the classifier on every bounded input.
NextPure == ScoreItems \/ Classify

InitPure ==
  /\ domain = "pure"
  /\ status = [c \in ContentIds |-> "Published"]
  /\ interactions = <<>>
  /\ now = 0
  /\ content_features = NoFeatures
  /\ cart = EmptyCart
  /\ orders = <<>>
  /\ stock = [p \in ProductIds |-> InitialStock]
  /\ user_product_matrix = <<>>
  /\ resp = NoResp
  /\ pair = NoPair
  /\ \/ \E a \in Items, b \in Items :
          call = [fn |-> "calculate_content_similarity", args |-> <<a, b>>,
                  done |-> FALSE, out |-> 0]
     \/ \E t \in Texts, c \in Categories :
          call = [fn |-> "classify_content", args |-> <<t, c>>,
                  done |-> FALSE, out |-> 0]

SpecPure == InitPure /\ [][NextPure]_vars

\* ================================================================= claims
ContentOps == {"content_based", "collaborative", "preference", "hybrid",
               "app_cf", "app_hybrid"}
ProductOps == {"user_based", "category_based", "product_hybrid"}
HybridOps == {"app_hybrid", "hybrid", "product_hybrid"}
Returned == Range(Ids(resp.list))
\* what the user already has: the cart rows and the purchases the product
\* engine reads
SeenProducts(u) ==
  {p \in ProductIds : cart[u][p] > 0 \/ Purchased(u, p, "completed") > 0}

\* C1: no recommendation operation returns an item its user already has an
\* interaction with (content: a stored interaction; product: in the cart or
\* purchased), the fallback paths included.
C1_DedupByExclusion ==
  /\ resp.op \in ContentOps => Returned \cap InteractedIds(resp.user) = {}
  /\ resp.op \in ProductOps => Returned \cap SeenProducts(resp.user) = {}

\* C2: a hybrid combiner that returns, returns at most n items and no item
\* id twice.
C2_HybridBounded ==
  resp.op \in HybridOps /\ ~resp.raised =>
    /\ Len(resp.list) <= resp.n
    /\ \A i, j \in 1..Len(resp.list) : i # j => resp.list[i].id # resp.list[j].id

\* the combiner of app.py has merged an item that both of its strategies
\* name, and returned n items
C2_Witness ==
  /\ resp.op = "app_hybrid" /\ resp.faults = {} /\ Len(resp.list) = resp.n
  /\ Returned \cap Range(Ids(get_collaborative_filtering_recommendations(
                              resp.user, resp.n \div 2 + 1, resp.ord, resp.faults)))
       \cap Range(Ids(get_content_recommendations(resp.item, resp.n \div 2 + 1, resp.ord)))
       # {}

\* C3: no operation raises to its caller, whichever reads fail.
C3_NeverRaises == ~resp.raised

\* C4: when every strategy a hybrid combiner calls fails, the combiner returns
\* what its trending / popularity fallback returns for the same n.
C4_AllFailGivesFallback ==
  /\ resp.op = "app_hybrid" /\ "content_based" \in resp.faults =>
       /\ ~resp.raised
       /\ Ids(resp.list) = Ids(get_trending_content(resp.n, resp.ord))
  /\ resp.op = "hybrid" /\ {"content_based", "collab", "pref"} \subseteq resp.faults =>
       /\ ~resp.raised
       /\ Ids(resp.list) = Ids(get_trending_recommendations(resp.n, resp.ord, {}).list)
  /\ resp.op = "product_hybrid" /\ {"user_based", "category"} \subseteq resp.faults =>
       Ids(resp.list) = Ids(get_popular_products(resp.n, resp.ord, resp.faults))

\* C5: the list a hybrid combiner returns is in non-increasing order of the
\* combined score.
C5_HybridOrdered ==
  resp.op \in HybridOps /\ ~resp.raised =>
    \A i, j \in 1..Len(resp.list) : i < j => resp.list[i].key >= resp.list[j].key

\* C6: each scorer returns exactly 1 for a non-zero vector of non-negative
\* weights and itself.
NonZero(v) == \E k \in DOMAIN v : v[k] > 0
C6_SelfSimilarityIsOne ==
  pair.scorer # "none" /\ NonZero(pair.user1) => pair.self = Milli

\* C7: each scorer returns the same for (A, B) as for (B, A).
C7_Symmetric == pair.scorer # "none" => pair.forward = pair.backward

\* the content scorer on two different overlapping vectors that are neither
\* parallel nor orthogonal
C7_Witness ==
  /\ pair.scorer = "content" /\ DOMAIN pair.user1 # DOMAIN pair.user2
  /\ pair.forward > 0 /\ pair.forward < Milli

\* C8: users whose item sets are disjoint have similarity 0 in each of the
\* three collaborative filters, neither is a neighbour of the other, and every item the collaborative filter of app.py
\* returns is an item of a user who shares an item with the target user.
Overlap(a, b) == DOMAIN a \cap DOMAIN b # {}
C8_DisjointNoNeighbour ==
  /\ resp.op = "app_cf" =>
       LET m == build_user_item_matrix(resp.ord, FALSE)
           items(u) == UserItems(m.rows, u)
       IN /\ \A u, v \in Range(m.users) :
                u # v /\ ~Overlap(items(u), items(v)) =>
                  /\ calculate_user_similarity(items(u), items(v)) = 0
                  /\ \A k \in 1..Len(AppNeighbours(m, u)) : AppNeighbours(m, u)[k].user # v
          /\ \A c \in Returned :
                \E v \in Range(m.users) \ {resp.user} :
                  Overlap(items(resp.user), items(v)) /\ c \in DOMAIN items(v)
  /\ resp.op \in {"user_based", "product_hybrid"} =>
       LET m == user_product_matrix
       IN \A u, v \in MatrixUserIds(m) :
            u # v /\ ~Overlap(ProductVector(m, u), ProductVector(m, v)) =>
              /\ product_calculate_user_similarity(ProductVector(m, u), ProductVector(m, v)) = 0
              /\ v \notin Range(Ids(ProductNeighbours(m, u)))
  /\ resp.op = "collaborative" =>
       \A v \in UserIds \ {resp.user} :
         ~Overlap(EngineUserVector(resp.user), EngineUserVector(v)) =>
           /\ cosine_similarity(EngineUserVector(resp.user), EngineUserVector(v)) = 0
           /\ v \notin Range(Ids(EngineNeighbours(resp.user, resp.ord)))

\* the filter of app.py has answered a user whose items are disjoint from
\* the items of the only other user
C8_Witness ==
  /\ resp.op = "app_cf" /\ resp.faults = {} /\ resp.list = <<>>
  /\ LET m == build_user_item_matrix(resp.ord, FALSE)
     IN /\ Range(m.users) = UserIds
        /\ \A v \in UserIds \ {resp.user} :
             ~Overlap(UserItems(m.rows, resp.user), UserItems(m.rows, v))

\* C9: analyze_user_behavior returns (it does not raise); with no interaction
\* of the last 90 days that is on published content with a score above zero,
\* the three mappings are empty; with no interaction of the last 90 days the
\* two counts are 0.
Window(u) == {i \in RowsOfUser(u) : interactions[i].ts >= now - WINDOW_ANALYZE}
Qualifying(u) ==
  {i \in Window(u) : status[interactions[i].content] = "Published" /\ interactions[i].score > 0}
C9_AnalyzeDefaults ==
  resp.op = "analyze" =>
    /\ ~resp.raised
    /\ Qualifying(resp.user) = {} =>
         /\ resp.profile.categories = <<>>
         /\ resp.profile.authors = <<>>
         /\ resp.profile.tags = <<>>
    /\ Window(resp.user) = {} =>
         resp.profile.total_interactions = 0 /\ resp.profile.recent_activity = 0

\* the analyzer has answered a user whose interactions are all of the last 90
\* days, on published content, and of score zero
C9_Witness ==
  /\ resp.op = "analyze" /\ resp.faults = {}
  /\ Window(resp.user) # {} /\ Qualifying(resp.user) = {}
  /\ \A i \in Window(resp.user) : status[interactions[i].content] = "Published"
  /\ resp.profile = DefaultPreferences

\* C10: every weight of a returned profile is within [0, 1], and a bucket
\* that is not empty has a weight of exactly 1.
Buckets == <<resp.profile.categories, resp.profile.authors, resp.profile.tags>>
C10_MaxNormalized ==
  resp.op = "analyze" =>
    \A n \in 1..Len(Buckets) :
      /\ \A k \in DOMAIN Buckets[n] : Buckets[n][k] >= 0 /\ Buckets[n][k] <= Milli
      /\ DOMAIN Buckets[n] # {} => \E k \in DOMAIN Buckets[n] : Buckets[n][k] = Milli

\* a profile with two categories of different weight
C10_Witness ==
  /\ resp.op = "analyze"
  /\ \E k \in DOMAIN resp.profile.categories :
       resp.profile.categories[k] > 0 /\ resp.profile.categories[k] < Milli

\* C11: two items of the same category, the same tag set and the same author
\* have a similarity of at least 0.8, whatever their bodies, the empty tag
\* set included.
C11_SameAttributesScore ==
  call.fn = "calculate_content_similarity" /\ call.done =>
    LET a == call.args[1]
        b == call.args[2]
    IN a.category = b.category /\ a.author = b.author
         /\ Range(get_tags_list(a)) = Range(get_tags_list(b)) => call.out >= 800

\* C12: a text with at least 3 programming keywords and no business keyword,
\* in a category that is not a business category, is classified 'tech'.
BusinessKeywordCount(text) ==
  Matches(business_keywords.strategy, text) + Matches(business_keywords.management, text)
    + Matches(business_keywords.business_roles, text)
C12_ProgrammingTextIsTech ==
  (/\ call.fn = "classify_content" /\ call.done
   /\ Matches(tech_keywords.programming, call.args[1]) >= 3
   /\ BusinessKeywordCount(call.args[1]) = 0
   /\ call.args[2] \notin category_mapping.business)
    => call.out.label = "tech"

\* C13: the label is 'tech' exactly when the tech score is above the business
\* score and above 0.3, 'business' exactly when the business score is above
\* the tech score and above 0.3, 'mixed' otherwise; both scores are in [0, 1].
C13_DecisionRule ==
  call.fn = "classify_content" /\ call.done =>
    LET t == call.out.tech_score
        b == call.out.business_score
    IN /\ call.out.label = "tech" <=> (t > b /\ t > 30)
       /\ call.out.label = "business" <=> (b > t /\ b > 30)
       /\ call.out.label = "mixed" <=> ~(t > b /\ t > 30) /\ ~(b > t /\ b > 30)
       /\ t >= 0 /\ t <= 100 /\ b >= 0 /\ b <= 100

\* the classifier has answered 'mixed' for a text whose two scores are both
\* capped at 1.0
C13_Witness ==
  /\ call.fn = "classify_content" /\ call.done
  /\ call.out.tech_score = 100 /\ call.out.business_score = 100
  /\ call.out.label = "mixed"

\* C14: a popularity operation called again with the same n, with no write in
\* between, returns the same items in the same order (the second call is made
\* while the first response is held; it may see the rows in either order).
C14_PopularityRepeats ==
  resp.faults = {} =>
    \A ord \in RowOrders :
      /\ resp.op = "app_trending" => Ids(get_trending_content(resp.n, ord)) = Ids(resp.list)
      /\ resp.op = "trending" =>
           Ids(get_trending_recommendations(resp.n, ord, {}).list) = Ids(resp.list)
      /\ resp.op = "popular" => Ids(get_popular_products(resp.n, ord, {})) = Ids(resp.list)

\* C15: with n >= 1 and no failing read, a popularity operation returns an
\* empty list exactly when no content is published (no product is active).
PopularityOps == {"app_trending", "trending", "popular"}
C15_PopularityNonEmpty ==
  resp.op \in PopularityOps /\ resp.n >= 1 /\ resp.faults = {} =>
    /\ ~resp.raised
    /\ resp.list = <<>> <=>
         IF resp.op = "popular" THEN ActiveProducts = {} ELSE Published = {}

\* C16: the interaction store is append-only: a step of track_user_interaction
\* or track_recommendation_feedback keeps every stored event, with its score
\* and its timestamp.
C16_AppendOnly ==
  [][\A i \in DOMAIN interactions :
       /\ i \in DOMAIN interactions'
       /\ interactions'[i].score = interactions[i].score
       /\ interactions'[i].ts = interactions[i].ts]_vars

\* C17: every stored interaction event has a score of at least 0.
C17_ScoresNonNegative == \A i \in RowIds : interactions[i].score >= 0

\* feedback 'dismissed' has brought a stored view down to score 0: one more
\* would make it negative
C17_Witness ==
  \E i \in RowIds : interactions[i].type = "view" /\ interactions[i].score = 0

\* C18: with no failing read, each of the three user-based collaborative
\* filters returns an empty list when the target user has no interaction
\* history, and when no neighbour has been selected (the similarities sum to 0).
C18_NoNeighboursGivesEmpty ==
  resp.faults = {} =>
    /\ resp.op = "app_cf" =>
         LET m == build_user_item_matrix(resp.ord, FALSE)
         IN RowsOfUser(resp.user) = {} \/ AppNeighbours(m, resp.user) = <<>>
              => resp.list = <<>>
    /\ resp.op = "collaborative" =>
         (RowsOfUser(resp.user) = {} \/ EngineNeighbours(resp.user, resp.ord) = <<>>
            => resp.list = <<>>)
    /\ resp.op = "user_based" =>
         ((\/ resp.user \notin MatrixUserIds(user_product_matrix)
           \/ ProductNeighbours(user_product_matrix, resp.user) = <<>>)
            => resp.list = <<>>)

\* C19: the content-based strategy returns the trending result when the
\* feature matrix is still unbuilt after the build attempt and when the user
\* has no interaction history; the item-based strategy returns the popularity
\* result when no other product is similar enough to the target product.
C19_FallsBackToPopularity ==
  /\ resp.op = "content_based" /\ resp.faults \in {{}, {"build"}} =>
       (~content_features.built \/ RowsOfUser(resp.user) = {} =>
          Ids(resp.list) = Ids(get_trending_recommendations(resp.n, resp.ord, {}).list))
  /\ resp.op = "item_based" /\ resp.faults = {} =>
       LET m == user_product_matrix
           similar == {p \in Range(ProductUsersOrder(m)) \ {resp.item} :
                         product_calculate_user_similarity(
                           ProductUsers(m, resp.item), ProductUsers(m, p)) > 100}
       IN similar = {} =>
            Ids(resp.list) = Ids(get_popular_products(resp.n, resp.ord, {}))

\* C20: in each hybrid combiner the score of a returned item is the sum of the
\* weighted scores of the strategies that surfaced it: 0.6 and 0.4 of the two
\* scores in app.py, the rank scores of the three strategies in the content
\* engine, 1.2 of the user-based score plus the category-based score in the
\* product engine.
ScoreIn(l, id) ==
  IF id \in Range(Ids(l)) THEN l[CHOOSE k \in 1..Len(l) : l[k].id = id].key ELSE 0
C20_ScoresSummed ==
  resp.faults = {} =>
    /\ resp.op = "app_hybrid" =>
         LET content_based == get_content_recommendations(resp.item, resp.n \div 2 + 1, resp.ord)
             cf_based == get_collaborative_filtering_recommendations(
                           resp.user, resp.n \div 2 + 1, resp.ord, {})
         IN \A k \in DOMAIN resp.list :
              resp.list[k].key = 6 * ScoreIn(content_based, resp.list[k].id)
                                 + 4 * ScoreIn(cf_based, resp.list[k].id)
    /\ resp.op = "product_hybrid" =>
         LET user_based == get_user_based_recommendations(
                             resp.user, resp.n \div 2 + 1, resp.ord, {})
             category_based == get_category_based_recommendations(
                                 resp.user, resp.n \div 2 + 1, resp.ord, {})
         IN \A k \in DOMAIN resp.list :
              resp.list[k].id \in Range(Ids(user_based)) \cup Range(Ids(category_based)) =>
                resp.list[k].key = ScoreIn(Boosted(user_based), resp.list[k].id)
                                   + ScoreIn(category_based, resp.list[k].id)

\* C21: for two vectors with a common key, each scorer returns s with
\* s * |A| * |B| = the dot product over the common keys, |A| and |B| taken over
\* all keys: s (in thousandths, rounded down) squared brackets
\* 10^6 * dot^2 / (|A|^2 * |B|^2), and s is 0 when a magnitude is 0.
C21_CosineOverFullMagnitudes ==
  pair.scorer # "none" /\ Overlap(pair.user1, pair.user2) =>
    LET dot == DotCommon(pair.user1, pair.user2)
        den == SumSquares(pair.user1) * SumSquares(pair.user2)
        scaled == ((Milli * dot * dot) \div den) * Milli
                  + (((Milli * dot * dot) % den) * Milli) \div den
    IN IF den = 0 THEN pair.forward = 0
       ELSE /\ pair.forward * pair.forward <= scaled
            /\ scaled < (pair.forward + 1) * (pair.forward + 1)

\* C22: in user-based collaborative filtering the score of a returned item is
\* the average of the selected neighbours' ratings of it, weighted by
\* similarity / (sum of the selected similarities): never above the largest
\* rating a selected neighbour gave the item.  Scores in thousandths of a
\* rating unit; app.py rounds to three places, the model rounds the others down.
C22_WeightedAverage ==
  resp.faults = {} =>
    /\ resp.op = "app_cf" =>
         LET m == build_user_item_matrix(resp.ord, FALSE)
             nbrs == AppNeighbours(m, resp.user)
             total == SumOver(DOMAIN nbrs, [k \in DOMAIN nbrs |-> nbrs[k].sim])
         IN \A j \in DOMAIN resp.list :
              /\ resp.list[j].key =
                   RoundHalfEven(500 * AppCandidateScore(m, nbrs, resp.list[j].id), total)
              /\ \E k \in DOMAIN nbrs :
                   /\ resp.list[j].id \in DOMAIN UserItems(m.rows, nbrs[k].user)
                   /\ resp.list[j].key <= 500 * UserItems(m.rows, nbrs[k].user)[resp.list[j].id]
    /\ resp.op = "collaborative" /\ RowsOfUser(resp.user) # {}
         /\ Cardinality({interactions[i].user : i \in RowIds}) >= 2
         /\ Cardinality({interactions[i].content : i \in RowIds}) >= 2 =>
         LET nbrs == EngineNeighbours(resp.user, resp.ord)
             total == SumOver(DOMAIN nbrs, [k \in DOMAIN nbrs |-> nbrs[k].key])
             weighted(c) == SumOver(DOMAIN nbrs, [k \in DOMAIN nbrs |->
                               nbrs[k].key * ScoreOnContent(nbrs[k].id, c)])
         IN \A j \in DOMAIN resp.list :
              resp.list[j].key = (Milli * weighted(resp.list[j].id)) \div total

\* C23: once the payment of an order of user U has succeeded, a build of the
\* user-product matrix gives matrix[U][P] >= q for every product P the order
\* holds with quantity q (scores in tenths).
C23_PaidOrdersInMatrix ==
  \A o \in DOMAIN orders, p \in ProductIds, ord \in RowOrders :
    orders[o].status = "paid" /\ orders[o].items[p] > 0 =>
      LET m == MatrixOf(ord)
      IN /\ orders[o].user \in MatrixUserIds(m)
         /\ p \in DOMAIN ProductVector(m, orders[o].user)
         /\ ProductVector(m, orders[o].user)[p] >= 10 * orders[o].items[p]

\* C24: the popular products are ranked by the quantity sold in completed
\* orders, ties by the newer creation date: the returned list is in that
\* order and no active product left out ranks above a returned one, so the
\* items of orders that are not completed change nothing.
CompletedSold(p) ==
  LET done == {o \in DOMAIN orders : orders[o].status = "completed"}
  IN SumOver(done, [o \in done |-> orders[o].items[p]])

CompletedRank(p) == CompletedSold(p) * Milli + Products[p].created_at + 500

C24_RankedByCompletedSales ==
  resp.op = "popular" /\ resp.faults = {} =>
    /\ \A j, k \in DOMAIN resp.list :
         j < k => CompletedRank(resp.list[j].id) >= CompletedRank(resp.list[k].id)
    /\ \A p \in ActiveProducts \ Returned, j \in DOMAIN resp.list :
         CompletedRank(resp.list[j].id) >= CompletedRank(p)

\* C25: for a limit of at least 1 the product engine's hybrid recommendation
\* returns exactly min(limit, number of active products) items.
C25_HybridFillsToLimit ==
  resp.op = "product_hybrid" /\ resp.faults = {} /\ resp.n >= 1 =>
    Len(resp.list) = Min(resp.n, Cardinality(ActiveProducts))

\* C30: the items of an order are deducted from stock at most once: stock
\* changes only in the step that takes a pending order to paid.
C30_StockDeductedOnce ==
  [][stock' # stock =>
       \E o \in DOMAIN orders :
         orders[o].status = "pending" /\ orders'[o].status = "paid"]_vars

\* C26: the content feature matrix is built lazily and then frozen: it
\* changes only in a content-based (or hybrid) request that found it unset,
\* and once it is set no status change and no request changes it.
C26_FeaturesBuiltOnceThenFrozen ==
  [][/\ content_features.built => content_features' = content_features
     /\ content_features' # content_features =>
          ~content_features.built /\ resp'.op \in {"content_based", "hybrid"}]_vars

\* a content-based request answered from a matrix that still lists content
\* which is no longer published
C26_Witness ==
  /\ resp.op = "content_based" /\ resp.faults = {}
  /\ content_features.built
  /\ Range(content_features.ids) \ Published # {}

\* C27: every item a recommendation operation returns is visible at the time
\* of the call: returned content is 'Published' (also content unpublished
\* after the feature matrix was built), returned products are active.
C27_ReturnedItemsVisible ==
  /\ resp.op \in {"content_based", "hybrid"} /\ resp.faults = {} => Returned \subseteq Published
  /\ resp.op \in ProductOps \cup {"popular", "item_based"} => Returned \subseteq ActiveProducts

\* C28: a 'similar items' request never returns the item it was asked about:
\* neither get_content_recommendations(id) nor get_item_based_recommendations(id)
\* (which get_similar_products wraps), on the normal path and on the
\* popularity fallback.
C28_SimilarExcludesItself ==
  resp.op \in {"app_similar", "item_based"} /\ resp.faults = {} => resp.item \notin Returned

\* C29: the content collaborative-filtering result is determined by the set
\* of stored interactions alone: whatever order the store returns the rows
\* in, build_user_item_matrix gives the same rating for every (user, item)
\* pair and an item recommended under both orders has the same score.
C29_RowOrderIrrelevant ==
  resp.op = "app_cf" /\ resp.faults = {} =>
    \A ord2 \in RowOrders :
      /\ \A u \in UserIds :
           UserItems(build_user_item_matrix(ord2, FALSE).rows, u)
             = UserItems(build_user_item_matrix(resp.ord, FALSE).rows, u)
      /\ \A e \in Range(get_collaborative_filtering_recommendations(resp.user, resp.n, ord2, {})) :
           \A j \in DOMAIN resp.list : resp.list[j].id = e.id => resp.list[j].key = e.key

====
